---------------------------- MODULE Spec2Model ----------------------------
(***************************************************************************)
(* Model of glue/scripts/normalize_wearable_data.py: the four record-level *)
(* normalization functions (convert_to_utc, normalize_heart_rate,          *)
(* normalize_activity, normalize_sleep) and the column pipeline that       *)
(* applies them to a row (normalized_df / final_df).                       *)
(*                                                                         *)
(* Python values are tagged records.  A dict is a TLA+ function from its   *)
(* keys (strings) to values.  A str is a sequence of one-character         *)
(* strings, so that lower(), float() and the timestamp parser work on the  *)
(* characters.  A float is a fixed-point number with Scale units per 1.    *)
(* A str that carries JSON text is a sequence of JSON tokens.              *)
(***************************************************************************)
EXTENDS Integers, Sequences, FiniteSets, TLC

VARIABLES pc, fn, arg, obj, ret, raised, prev

vars == <<pc, fn, arg, obj, ret, raised, prev>>

-----------------------------------------------------------------------------
(* Bounds of the model *)

\* longest data_points list of a heart-rate payload
MaxPoints == 2

\* longest JSON text, in tokens, of a payload passed as a string
MaxTokens == 5

\* largest distance / duration magnitude tried
MaxAmount == 2

-----------------------------------------------------------------------------
(* Python values *)

None == [t |-> "none"]

Absent == [t |-> "absent"]

PyInt(n) == [t |-> "int", n |-> n]

\* a float as a decimal: the value is m / 10^e (e may be negative)
PyFloat(m, e) == [t |-> "float", m |-> m, e |-> e]

PyBool(b) == [t |-> "bool", b |-> b]

\* a str as its characters
PyStr(chars) == [t |-> "str", s |-> chars]

\* a str holding JSON text, as its tokens
JsonText(toks) == [t |-> "str", json |-> toks]

PyDict(m) == [t |-> "dict", m |-> m]

PyList(l) == [t |-> "list", l |-> l]

IsDict(v) == v.t = "dict"

IsPlainStr(v) == v.t = "str" /\ "s" \in DOMAIN v

IsJsonText(v) == v.t = "str" /\ "json" \in DOMAIN v

IsNum(v) == v.t \in {"int", "float", "bool"}

IsIntLike(v) == v.t \in {"int", "bool"}

IntOf(v) == IF v.t = "bool" THEN (IF v.b THEN 1 ELSE 0) ELSE v.n

Abs(x) == IF x < 0 THEN -x ELSE x

Max(x, y) == IF x > y THEN x ELSE y

Pow10(k) == 10 ^ k

\* integer division rounding toward zero
TruncDiv(x, y) ==
    IF (x < 0) = (y < 0) THEN Abs(x) \div Abs(y) ELSE -(Abs(x) \div Abs(y))

\* the decimal m / 10^e with no trailing zero in m
RECURSIVE Norm(_, _)
Norm(m, e) ==
    IF m = 0 THEN [m |-> 0, e |-> 0]
    ELSE IF m % 10 = 0 THEN Norm(m \div 10, e - 1)
         ELSE [m |-> m, e |-> e]

\* the value of a number as a normalised decimal
Dec(v) == IF v.t = "float" THEN Norm(v.m, v.e) ELSE Norm(IntOf(v), 0)

FloatOfDec(d) == PyFloat(d.m, d.e)

\* digits kept by a division
Precision == 4

\* a * b on numbers: int * int is an int, anything with a float is a float
PyMul(a, b) ==
    IF IsIntLike(a) /\ IsIntLike(b)
    THEN PyInt(IntOf(a) * IntOf(b))
    ELSE FloatOfDec(Norm(Dec(a).m * Dec(b).m, Dec(a).e + Dec(b).e))

DecAdd(x, y) ==
    LET e == Max(x.e, y.e)
    IN  Norm(x.m * Pow10(e - x.e) + y.m * Pow10(e - y.e), e)

PyAdd(a, b) ==
    IF IsIntLike(a) /\ IsIntLike(b)
    THEN PyInt(IntOf(a) + IntOf(b))
    ELSE FloatOfDec(DecAdd(Dec(a), Dec(b)))

\* a / b, true division: always a float
PyTrueDiv(a, b) ==
    FloatOfDec(Norm(TruncDiv(Dec(a).m * Pow10(Precision), Dec(b).m),
                    Dec(a).e - Dec(b).e + Precision))

\* a < b on numbers
NumLess(a, b) ==
    LET x == Dec(a)
        y == Dec(b)
        e == Max(x.e, y.e)
    IN  x.m * Pow10(e - x.e) < y.m * Pow10(e - y.e)

\* a == b on numbers (130 == 130.0)
NumEq(a, b) == IsNum(a) /\ IsNum(b) /\ Dec(a) = Dec(b)

-----------------------------------------------------------------------------
(* dict operations *)

EmptyDict == [k \in {} |-> None]

Has(d, k) == k \in DOMAIN d

\* d.get(k, default)
Get(d, k, default) == IF k \in DOMAIN d THEN d[k] ELSE default

\* d[k] = v
Put(d, k, v) == [x \in (DOMAIN d) \cup {k} |-> IF x = k THEN v ELSE d[x]]

\* the dict of the keys of f that are not Absent
MkDict(f) == [k \in {x \in DOMAIN f : f[x] # Absent} |-> f[k]]

-----------------------------------------------------------------------------
(* str operations *)

UpperCase == <<"A","B","C","D","E","F","G","H","I","J","K","L","M",
               "N","O","P","Q","R","S","T","U","V","W","X","Y","Z">>

LowerCase == <<"a","b","c","d","e","f","g","h","i","j","k","l","m",
               "n","o","p","q","r","s","t","u","v","w","x","y","z">>

LowerChar(c) ==
    IF \E i \in 1..26 : UpperCase[i] = c
    THEN LowerCase[CHOOSE i \in 1..26 : UpperCase[i] = c]
    ELSE c

\* s.lower()
Lower(chars) == [i \in 1..Len(chars) |-> LowerChar(chars[i])]

Digits == <<"0","1","2","3","4","5","6","7","8","9">>

IsDigit(c) == \E i \in 1..10 : Digits[i] = c

DigitVal(c) == (CHOOSE i \in 1..10 : Digits[i] = c) - 1

AllDigits(chars) == \A i \in 1..Len(chars) : IsDigit(chars[i])

\* the number written by a sequence of digits
RECURSIVE DigitsVal(_)
DigitsVal(chars) ==
    IF Len(chars) = 0 THEN 0
    ELSE 10 * DigitsVal(SubSeq(chars, 1, Len(chars) - 1)) + DigitVal(chars[Len(chars)])


FirstDot(chars) ==
    IF \E i \in 1..Len(chars) : chars[i] = "."
    THEN CHOOSE i \in 1..Len(chars) :
            chars[i] = "." /\ \A j \in 1..(i - 1) : chars[j] # "."
    ELSE 0

\* float(s) for a str s: [ok, m, e]; ok = FALSE is ValueError
ParseFloat(chars) ==
    LET signed == Len(chars) > 0 /\ chars[1] \in {"-", "+"}
        neg    == Len(chars) > 0 /\ chars[1] = "-"
        body   == IF signed THEN SubSeq(chars, 2, Len(chars)) ELSE chars
        dot    == FirstDot(body)
        whole  == IF dot = 0 THEN body ELSE SubSeq(body, 1, dot - 1)
        frac   == IF dot = 0 THEN <<>> ELSE SubSeq(body, dot + 1, Len(body))
        mag    == DigitsVal(whole \o frac)
    IN  IF AllDigits(whole) /\ AllDigits(frac) /\ Len(whole) + Len(frac) > 0
        THEN [ok |-> TRUE, m |-> IF neg THEN -mag ELSE mag, e |-> Len(frac)]
        ELSE [ok |-> FALSE, m |-> 0, e |-> 0]

\* float(v): [ok, v]; ok = FALSE is TypeError or ValueError
float(v) ==
    IF IsNum(v) THEN [ok |-> TRUE, v |-> FloatOfDec(Dec(v))]
    ELSE IF IsPlainStr(v)
         THEN LET r == ParseFloat(v.s)
              IN  [ok |-> r.ok, v |-> FloatOfDec(Norm(r.m, r.e))]
         ELSE [ok |-> FALSE, v |-> None]

IntFloor(f) ==
    IF f.e <= 0 THEN PyInt(f.m * Pow10(-f.e))
    ELSE PyInt(f.m \div Pow10(f.e))

\* int(f) for a float f: truncation toward zero
int(f) ==
    IF f.e <= 0 THEN PyInt(f.m * Pow10(-f.e))
    ELSE PyInt(TruncDiv(f.m, Pow10(f.e)))

-----------------------------------------------------------------------------
(* json.loads on a token sequence *)

LBrace == [k |-> "lbrace"]

RBrace == [k |-> "rbrace"]

Colon == [k |-> "colon"]

Comma == [k |-> "comma"]

\* a member name: "steps"
Name(s) == [k |-> "name", s |-> s]

\* a scalar literal: 120.7, "km", null, true
Lit(v) == [k |-> "lit", v |-> v]

\* name : literal (, name : literal)*
MembersOk(inner) ==
    /\ Len(inner) % 4 = 3
    /\ \A i \in 1..Len(inner) :
          CASE i % 4 = 1 -> inner[i].k = "name"
            [] i % 4 = 2 -> inner[i] = Colon
            [] i % 4 = 3 -> inner[i].k = "lit"
            [] OTHER     -> inner[i] = Comma

\* the dict of the members, a repeated name keeping its last value
RECURSIVE Members(_)
Members(inner) ==
    IF Len(inner) < 3 THEN EmptyDict
    ELSE LET n == Len(inner)
             before == IF n > 3 THEN SubSeq(inner, 1, n - 4) ELSE <<>>
         IN  Put(Members(before), inner[n - 2].s, inner[n].v)

\* json.loads(text): [ok, val]; ok = FALSE is JSONDecodeError
json_loads(toks) ==
    IF Len(toks) = 1 /\ toks[1].k = "lit"
    THEN [ok |-> TRUE, val |-> toks[1].v]
    ELSE IF Len(toks) >= 2 /\ toks[1] = LBrace /\ toks[Len(toks)] = RBrace
         THEN LET inner == SubSeq(toks, 2, Len(toks) - 1)
              IN  IF Len(inner) = 0 THEN [ok |-> TRUE, val |-> PyDict(EmptyDict)]
                  ELSE IF MembersOk(inner)
                       THEN [ok |-> TRUE, val |-> PyDict(Members(inner))]
                       ELSE [ok |-> FALSE, val |-> None]
         ELSE [ok |-> FALSE, val |-> None]

-----------------------------------------------------------------------------
(* the try body of a normalizer: a frame is the payload as mutated so far  *)
(* and whether a statement raised                                           *)

Ok(d) == [d |-> d, exc |-> FALSE]

Raise(d) == [d |-> d, exc |-> TRUE]

\* the end of a call: what is returned, what the caller's object holds
\* afterwards, and whether an exception reached the caller
Outcome(r, o, e) == [ret |-> r, obj |-> o, escaped |-> e]

\* the call ends with what the return or the except clause hands back
Ends(h, o) == Outcome(h.ret, o, h.escaped)

ExceptReraises(payload) == [ret |-> None, escaped |-> TRUE]

\* except Exception as e: print(...); return <payload>
ExceptHandler(payload) == [ret |-> payload, escaped |-> FALSE]

\* return <payload> at the end of the try body, or the except clause
Return(frame) ==
    IF frame.exc THEN ExceptHandler(PyDict(frame.d))
    ELSE [ret |-> PyDict(frame.d), escaped |-> FALSE]

\* json.loads raised: the parameter still names the str that was passed
DecodeFailure(x) == Ends(ExceptHandler(x), x)

-----------------------------------------------------------------------------
(* the str literals of the script *)

s_normalized == <<"n","o","r","m","a","l","i","z","e","d">>

s_bpm == <<"b","p","m">>

s_beats_per_minute == <<"b","e","a","t","s","_","p","e","r","_","m","i","n","u","t","e">>

s_beats_per_minute_spaced == <<"b","e","a","t","s"," ","p","e","r"," ","m","i","n","u","t","e">>

s_meters == <<"m","e","t","e","r","s">>

s_km == <<"k","m">>

s_kilometers == <<"k","i","l","o","m","e","t","e","r","s">>

s_mi == <<"m","i">>

s_miles == <<"m","i","l","e","s">>

s_ft == <<"f","t">>

s_feet == <<"f","e","e","t">>

s_seconds == <<"s","e","c","o","n","d","s">>

s_s == <<"s">>

s_minutes == <<"m","i","n","u","t","e","s">>

s_min == <<"m","i","n">>

s_hours == <<"h","o","u","r","s">>

s_h == <<"h">>

s_ms == <<"m","s">>

-----------------------------------------------------------------------------
(* normalize_heart_rate *)

min_hr == 40

max_hr == 220

range_hr == max_hr - min_hr

\* 1. Convert from normalized values (0-1) to BPM
HrFromNormalized(d) ==
    IF Has(d, "normalized") /\ Get(d, "unit", None) = PyStr(s_normalized)
    THEN LET a == Get(d, "avg_normalized", PyInt(0))
         IN  IF ~IsNum(a) THEN Raise(d)
             ELSE IF NumLess(PyInt(0), a) /\ NumLess(a, PyInt(1))
                  THEN Ok(Put(Put(d, "avg_bpm",
                                  PyAdd(PyInt(min_hr), PyMul(a, PyInt(range_hr)))),
                              "unit", PyStr(s_bpm)))
                  ELSE Ok(d)
    ELSE Ok(d)

BpmSpellings == {s_bpm, s_beats_per_minute, s_beats_per_minute_spaced}

HrUnitCaseSensitive(d) ==
    IF Has(d, "unit")
    THEN IF ~IsPlainStr(d["unit"]) THEN Raise(d)
         ELSE IF d["unit"].s \in BpmSpellings
              THEN Ok(Put(d, "unit", PyStr(s_bpm)))
              ELSE Ok(d)
    ELSE Ok(Put(d, "unit", PyStr(s_bpm)))

\* 2. Ensure 'bpm' is the unit
HrUnit(d) ==
    IF Has(d, "unit")
    THEN IF ~IsPlainStr(d["unit"]) THEN Raise(d)
         ELSE IF Lower(d["unit"].s) \in BpmSpellings
              THEN Ok(Put(d, "unit", PyStr(s_bpm)))
              ELSE Ok(d)
    ELSE Ok(Put(d, "unit", PyStr(s_bpm)))

\* 3. If avg_hr exists but avg_bpm doesn't, copy the value
HrCopyAvg(d) ==
    IF Has(d, "avg_hr") /\ ~Has(d, "avg_bpm")
    THEN Ok(Put(d, "avg_bpm", d["avg_hr"]))
    ELSE Ok(d)

\* [dp.get('value', 0) for dp in data_points if 'value' in dp]
RECURSIVE BpmValues(_)
BpmValues(points) ==
    IF Len(points) = 0 THEN <<>>
    ELSE IF Has(Head(points), "value")
         THEN <<Head(points)["value"]>> \o BpmValues(Tail(points))
         ELSE BpmValues(Tail(points))

\* sum(values), for numbers
RECURSIVE Sum(_)
Sum(values) ==
    IF Len(values) = 0 THEN PyInt(0)
    ELSE PyAdd(Sum(SubSeq(values, 1, Len(values) - 1)), values[Len(values)])

\* 4. avg_bpm from the data points
HrFromPoints(d) ==
    IF ~Has(d, "avg_bpm") /\ Has(d, "data_points")
    THEN LET data_points == d["data_points"]
         IN  IF data_points.t = "list" /\ Len(data_points.l) > 0
             THEN LET bpm_values == BpmValues(data_points.l)
                  IN  IF Len(bpm_values) = 0 THEN Ok(d)
                      ELSE IF \E i \in 1..Len(bpm_values) : ~IsNum(bpm_values[i])
                           THEN Raise(d)
                           ELSE Ok(Put(d, "avg_bpm",
                                       PyTrueDiv(Sum(bpm_values),
                                                 PyInt(Len(bpm_values)))))
             ELSE Ok(d)
    ELSE Ok(d)

\* the statements of the try body in order: one runs unless an earlier one
\* raised
HrThenUnit(frame) == IF frame.exc THEN frame ELSE HrUnit(frame.d)

HrThenCopyAvg(frame) == IF frame.exc THEN frame ELSE HrCopyAvg(frame.d)

HrThenFromPoints(frame) == IF frame.exc THEN frame ELSE HrFromPoints(frame.d)

HeartRateBody(d) ==
    HrThenFromPoints(HrThenCopyAvg(HrThenUnit(HrFromNormalized(d))))

-----------------------------------------------------------------------------
(* normalize_activity *)

MetersPerKm == PyInt(1000)

\* 1609.34
MetersPerMile == PyFloat(160934, 2)

\* 0.3048
MetersPerFoot == PyFloat(3048, 4)

\* distance * factor; None * factor raises TypeError
ConvertDistance(d, factor) ==
    IF IsNum(d["distance"])
    THEN Ok(Put(Put(d, "distance_meters", PyMul(d["distance"], factor)),
                "distance_unit", PyStr(s_meters)))
    ELSE Raise(d)

\* 1. Normalize distance to meters
ActDistance(d) ==
    IF Has(d, "distance")
    THEN LET unit == Get(d, "distance_unit", PyStr(s_meters))
         IN  IF ~IsPlainStr(unit) THEN Raise(d)
             ELSE LET distance_unit == Lower(unit.s)
                  IN  IF distance_unit = s_km \/ distance_unit = s_kilometers
                      THEN ConvertDistance(d, MetersPerKm)
                      ELSE IF distance_unit = s_mi \/ distance_unit = s_miles
                      THEN ConvertDistance(d, MetersPerMile)
                      ELSE IF distance_unit = s_ft \/ distance_unit = s_feet
                      THEN ConvertDistance(d, MetersPerFoot)
                      ELSE Ok(Put(Put(d, "distance_meters", d["distance"]),
                                  "distance_unit", PyStr(s_meters)))
    ELSE Ok(d)

MsPerHour == PyInt(1000 * 60 * 60)

\* 1800 / 24
BmrPerHour == PyTrueDiv(PyInt(1800), PyInt(24))

\* 2. Normalize calories
ActCalories(d) ==
    IF Has(d, "calories") /\ ~Has(d, "total_calories")
    THEN Ok(Put(d, "total_calories", d["calories"]))
    ELSE IF Has(d, "active_calories") /\ ~Has(d, "total_calories")
         THEN IF Has(d, "duration_ms")
              THEN IF IsNum(d["duration_ms"]) /\ IsNum(d["active_calories"])
                   THEN LET hours == PyTrueDiv(d["duration_ms"], MsPerHour)
                            bmr_calories == PyMul(BmrPerHour, hours)
                        IN  Ok(Put(d, "total_calories",
                                   PyAdd(d["active_calories"], bmr_calories)))
                   ELSE Raise(d)
              ELSE Ok(Put(d, "total_calories", d["active_calories"]))
         ELSE Ok(d)

\* 3. Normalize steps (ensure it's an integer)
ActSteps(d) ==
    IF Has(d, "steps") /\ d["steps"] # None
    THEN LET f == float(d["steps"])
         IN  IF f.ok THEN Ok(Put(d, "steps", int(f.v))) ELSE Raise(d)
    ELSE Ok(d)

ActThenCalories(frame) == IF frame.exc THEN frame ELSE ActCalories(frame.d)

ActThenSteps(frame) == IF frame.exc THEN frame ELSE ActSteps(frame.d)

ActivityBody(d) == ActThenSteps(ActThenCalories(ActDistance(d)))

-----------------------------------------------------------------------------
(* normalize_sleep *)

ConvertDuration(d, factor) ==
    IF IsNum(d["sleep_duration"])
    THEN Ok(Put(Put(d, "sleep_duration_ms", PyMul(d["sleep_duration"], factor)),
                "duration_unit", PyStr(s_ms)))
    ELSE Raise(d)

SleepDurationUnguarded(d) ==
    IF Has(d, "sleep_duration")
    THEN LET unit == Get(d, "duration_unit", PyStr(s_seconds))
         IN  IF ~IsPlainStr(unit) THEN Raise(d)
             ELSE LET duration_unit == Lower(unit.s)
                  IN  IF duration_unit = s_seconds \/ duration_unit = s_s
                      THEN ConvertDuration(d, PyInt(1000))
                      ELSE IF duration_unit = s_minutes \/ duration_unit = s_min
                      THEN ConvertDuration(d, PyInt(60 * 1000))
                      ELSE IF duration_unit = s_hours \/ duration_unit = s_h
                      THEN ConvertDuration(d, PyInt(60 * 60 * 1000))
                      ELSE Ok(Put(Put(d, "sleep_duration_ms", d["sleep_duration"]),
                                  "duration_unit", PyStr(s_ms)))
    ELSE Ok(d)

SleepDurationDefaultMs(d) ==
    IF Has(d, "sleep_duration") /\ ~Has(d, "sleep_duration_ms")
    THEN LET unit == Get(d, "duration_unit", PyStr(s_ms))
         IN  IF ~IsPlainStr(unit) THEN Raise(d)
             ELSE LET duration_unit == Lower(unit.s)
                  IN  IF duration_unit = s_seconds \/ duration_unit = s_s
                      THEN ConvertDuration(d, PyInt(1000))
                      ELSE IF duration_unit = s_minutes \/ duration_unit = s_min
                      THEN ConvertDuration(d, PyInt(60 * 1000))
                      ELSE IF duration_unit = s_hours \/ duration_unit = s_h
                      THEN ConvertDuration(d, PyInt(60 * 60 * 1000))
                      ELSE Ok(Put(Put(d, "sleep_duration_ms", d["sleep_duration"]),
                                  "duration_unit", PyStr(s_ms)))
    ELSE Ok(d)

\* 1. Normalize sleep duration to milliseconds
SleepDuration(d) ==
    IF Has(d, "sleep_duration") /\ ~Has(d, "sleep_duration_ms")
    THEN LET unit == Get(d, "duration_unit", PyStr(s_seconds))
         IN  IF ~IsPlainStr(unit) THEN Raise(d)
             ELSE LET duration_unit == Lower(unit.s)
                  IN  IF duration_unit = s_seconds \/ duration_unit = s_s
                      THEN ConvertDuration(d, PyInt(1000))
                      ELSE IF duration_unit = s_minutes \/ duration_unit = s_min
                      THEN ConvertDuration(d, PyInt(60 * 1000))
                      ELSE IF duration_unit = s_hours \/ duration_unit = s_h
                      THEN ConvertDuration(d, PyInt(60 * 60 * 1000))
                      ELSE Ok(Put(Put(d, "sleep_duration_ms", d["sleep_duration"]),
                                  "duration_unit", PyStr(s_ms)))
    ELSE Ok(d)

\* stage_mapping, each standard stage with its variations in order
stage_mapping ==
    <<[stage |-> "light", variations |-> <<"light", "light_sleep">>],
      [stage |-> "deep",  variations |-> <<"deep", "deep_sleep", "slow_wave">>],
      [stage |-> "rem",   variations |-> <<"rem", "rem_sleep", "rapid_eye_movement">>],
      [stage |-> "awake", variations |-> <<"awake", "wake", "wakefulness">>]>>

\* for variation in variations: if variation in stages: normalized[stage] = ...
RECURSIVE ScanVariations(_, _, _, _)
ScanVariations(normalized, stage, variations, stages) ==
    IF Len(variations) = 0 THEN normalized
    ELSE ScanVariations(
            IF Has(stages, Head(variations))
            THEN Put(normalized, stage, stages[Head(variations)])
            ELSE normalized,
            stage, Tail(variations), stages)

\* for standard_stage, variations in stage_mapping.items(): ...
RECURSIVE ScanStages(_, _, _)
ScanStages(normalized, mapping, stages) ==
    IF Len(mapping) = 0 THEN normalized
    ELSE ScanStages(
            ScanVariations(normalized, Head(mapping).stage,
                           Head(mapping).variations, stages),
            Tail(mapping), stages)

\* 2. Normalize sleep stages
SleepStages(d) ==
    IF Has(d, "stages")
    THEN IF IsDict(d["stages"])
         THEN Ok(Put(d, "normalized_stages",
                     PyDict(ScanStages(EmptyDict, stage_mapping, d["stages"].m))))
         ELSE Raise(d)
    ELSE Ok(d)

SleepThenStages(frame) == IF frame.exc THEN frame ELSE SleepStages(frame.d)

SleepBody(d) == SleepThenStages(SleepDuration(d))

-----------------------------------------------------------------------------
(* the three normalizers *)

TryBody(name, d) ==
    CASE name = "normalize_heart_rate" -> HeartRateBody(d)
      [] name = "normalize_activity" -> ActivityBody(d)
      [] name = "normalize_sleep" -> SleepBody(d)

\* a dict argument is the very object the statements of the try body assign
\* into: the caller's dict holds what the body left in it
NormalizeDict(frame) == Ends(Return(frame), PyDict(frame.d))

\* a str argument is rebound to the decoded value, and a str is immutable;
\* a decoded value that is not a dict (a JSON scalar) either raises at a
\* test or fails every test, and is returned as decoded in both cases
NormalizeStr(name, x, r) ==
    IF ~r.ok THEN DecodeFailure(x)
    ELSE IF IsDict(r.val) THEN Ends(Return(TryBody(name, r.val.m)), x)
         ELSE Outcome(r.val, x, FALSE)

\* the shared shape of the three normalizers
Normalize(name, x) ==
    IF x = None THEN Outcome(None, None, FALSE)
    ELSE IF IsJsonText(x) THEN NormalizeStr(name, x, json_loads(x.json))
         ELSE IF IsDict(x) THEN NormalizeDict(TryBody(name, x.m))
              ELSE Outcome(x, x, FALSE)

normalize_heart_rate(x) == Normalize("normalize_heart_rate", x)

normalize_activity(x) == Normalize("normalize_activity", x)

normalize_sleep(x) == Normalize("normalize_sleep", x)

-----------------------------------------------------------------------------
(* convert_to_utc *)

\* a datetime; off is the UTC offset in minutes when aware
DateTime(y, mo, d, h, mi, sec, aware, off) ==
    [t |-> "datetime", year |-> y, month |-> mo, day |-> d, hour |-> h,
     minute |-> mi, second |-> sec, aware |-> aware, off |-> off]

IsLeap(y) == (y % 4 = 0 /\ y % 100 # 0) \/ y % 400 = 0

DaysInMonth(y, mo) ==
    IF mo = 2 THEN (IF IsLeap(y) THEN 29 ELSE 28)
    ELSE IF mo \in {4, 6, 9, 11} THEN 30 ELSE 31

Num2(chars, i) == DigitsVal(SubSeq(chars, i, i + 1))

\* the zone suffix of a timestamp: [ok, aware, off]
ParseOffset(suffix) ==
    IF Len(suffix) = 0 THEN [ok |-> TRUE, aware |-> FALSE, off |-> 0]
    ELSE IF suffix = <<"Z">> THEN [ok |-> TRUE, aware |-> TRUE, off |-> 0]
    ELSE IF /\ Len(suffix) = 6
            /\ suffix[1] \in {"+", "-"}
            /\ suffix[4] = ":"
            /\ AllDigits(SubSeq(suffix, 2, 3))
            /\ AllDigits(SubSeq(suffix, 5, 6))
            /\ Num2(suffix, 2) < 24
            /\ Num2(suffix, 5) < 60
         THEN LET mag == Num2(suffix, 2) * 60 + Num2(suffix, 5)
              IN  [ok |-> TRUE, aware |-> TRUE,
                   off |-> IF suffix[1] = "-" THEN -mag ELSE mag]
         ELSE [ok |-> FALSE, aware |-> FALSE, off |-> 0]

\* parser.parse(timestamp_str) on YYYY-MM-DD(T| )HH:MM:SS[Z|+HH:MM|-HH:MM]:
\* [ok, dt]; ok = FALSE is ParserError
ParseTimestamp(chars) ==
    IF /\ Len(chars) >= 19
       /\ AllDigits(SubSeq(chars, 1, 4))
       /\ chars[5] = "-" /\ AllDigits(SubSeq(chars, 6, 7))
       /\ chars[8] = "-" /\ AllDigits(SubSeq(chars, 9, 10))
       /\ chars[11] \in {"T", " "} /\ AllDigits(SubSeq(chars, 12, 13))
       /\ chars[14] = ":" /\ AllDigits(SubSeq(chars, 15, 16))
       /\ chars[17] = ":" /\ AllDigits(SubSeq(chars, 18, 19))
    THEN LET y   == DigitsVal(SubSeq(chars, 1, 4))
             mo  == Num2(chars, 6)
             d   == Num2(chars, 9)
             h   == Num2(chars, 12)
             mi  == Num2(chars, 15)
             sec == Num2(chars, 18)
             z   == ParseOffset(SubSeq(chars, 20, Len(chars)))
         IN  IF /\ y >= 1 /\ mo \in 1..12 /\ d >= 1 /\ d <= DaysInMonth(y, mo)
                /\ h < 24 /\ mi < 60 /\ sec < 60 /\ z.ok
             THEN [ok |-> TRUE, dt |-> DateTime(y, mo, d, h, mi, sec, z.aware, z.off)]
             ELSE [ok |-> FALSE, dt |-> None]
    ELSE [ok |-> FALSE, dt |-> None]

\* day of the week, 0 = Sunday
DayOfWeek(y, mo, d) ==
    LET t  == <<0, 3, 2, 5, 0, 3, 5, 1, 4, 6, 2, 4>>
        yy == IF mo < 3 THEN y - 1 ELSE y
    IN  (yy + yy \div 4 - yy \div 100 + yy \div 400 + t[mo] + d) % 7

FirstSunday(y, mo) == 1 + ((7 - DayOfWeek(y, mo, 1)) % 7)

\* the wall clock of dt as minutes since the start of its month
WallMinutes(dt) == ((dt.day - 1) * 24 + dt.hour) * 60 + dt.minute

EST == -300

EDT == -240

\* pytz.timezone('America/New_York').localize(dt), is_dst = False: daylight
\* time runs from the second Sunday of March, 03:00 on the wall clock, to
\* the first Sunday of November, 01:00; the skipped hour and the repeated
\* hour both resolve to standard time
Localize(dt) ==
    LET start == ((FirstSunday(dt.year, 3) + 7 - 1) * 24 + 3) * 60
        stop  == ((FirstSunday(dt.year, 11) - 1) * 24 + 1) * 60
        dst   == \/ dt.month = 3 /\ WallMinutes(dt) >= start
                 \/ dt.month \in 4..10
                 \/ dt.month = 11 /\ WallMinutes(dt) < stop
    IN  [dt EXCEPT !.aware = TRUE, !.off = IF dst THEN EDT ELSE EST]

PrevDay(dt) ==
    IF dt.day > 1 THEN [dt EXCEPT !.day = dt.day - 1]
    ELSE IF dt.month > 1
         THEN [dt EXCEPT !.month = dt.month - 1,
                         !.day = DaysInMonth(dt.year, dt.month - 1)]
         ELSE [dt EXCEPT !.year = dt.year - 1, !.month = 12, !.day = 31]

NextDay(dt) ==
    IF dt.day < DaysInMonth(dt.year, dt.month) THEN [dt EXCEPT !.day = dt.day + 1]
    ELSE IF dt.month < 12
         THEN [dt EXCEPT !.month = dt.month + 1, !.day = 1]
         ELSE [dt EXCEPT !.year = dt.year + 1, !.month = 1, !.day = 1]

\* dt + timedelta(minutes = delta), for less than a day either way
AddMinutes(dt, delta) ==
    LET total == dt.hour * 60 + dt.minute + delta
        day   == IF total < 0 THEN PrevDay(dt)
                 ELSE IF total >= 1440 THEN NextDay(dt) ELSE dt
        m     == total % 1440
    IN  [day EXCEPT !.hour = m \div 60, !.minute = m % 60]

AsTimezoneKeepsWallClock(dt) == [dt EXCEPT !.off = 0]

\* dt.astimezone(pytz.UTC)
AsTimezoneUtc(dt) == [AddMinutes(dt, -dt.off) EXCEPT !.off = 0]

convert_to_utc(timestamp_str) ==
    IF timestamp_str = None THEN None
    ELSE IF ~IsPlainStr(timestamp_str) THEN None
    ELSE LET r == ParseTimestamp(timestamp_str.s)
         IN  IF ~r.ok THEN None
             ELSE LET dt == IF r.dt.aware THEN r.dt ELSE Localize(r.dt)
                  IN  AsTimezoneUtc(dt)

Pad2(n) == <<Digits[(n \div 10) + 1], Digits[(n % 10) + 1]>>

Pad4(n) == Pad2(n \div 100) \o Pad2(n % 100)

\* datetime.isoformat(): the rendering of a datetime as a str
IsoFormat(dt) ==
    Pad4(dt.year) \o <<"-">> \o Pad2(dt.month) \o <<"-">> \o Pad2(dt.day)
    \o <<"T">> \o Pad2(dt.hour) \o <<":">> \o Pad2(dt.minute)
    \o <<":">> \o Pad2(dt.second)
    \o (IF dt.aware
        THEN <<IF dt.off < 0 THEN "-" ELSE "+">>
             \o Pad2(Abs(dt.off) \div 60) \o <<":">> \o Pad2(Abs(dt.off) % 60)
        ELSE <<>>)

-----------------------------------------------------------------------------
(* the column pipeline: normalized_df and final_df *)

\* a udf column: the value the function returns for the row's column
NormalizedColumnsShifted(row) ==
    [start_date_utc |-> convert_to_utc(row.start_date),
     end_date_utc |-> convert_to_utc(row.end_date),
     date_utc |-> convert_to_utc(row.date),
     normalized_heart_rate |-> normalize_heart_rate(row.heart_rate).ret,
     normalized_activity |-> normalize_activity(row.heart_rate).ret,
     normalized_sleep |-> normalize_sleep(row.activity).ret]

\* the six withColumn calls of normalized_df
NormalizedColumns(row) ==
    [start_date_utc |-> convert_to_utc(row.start_date),
     end_date_utc |-> convert_to_utc(row.end_date),
     date_utc |-> convert_to_utc(row.date),
     normalized_heart_rate |-> normalize_heart_rate(row.heart_rate).ret,
     normalized_activity |-> normalize_activity(row.activity).ret,
     normalized_sleep |-> normalize_sleep(row.sleep).ret]

normalized_df(row) == row @@ NormalizedColumns(row)

\* when(col(c).isNotNull(), col(c + "." + key)).otherwise(None); a key the
\* map does not hold reads as null
Extract(column, key) ==
    IF column # None /\ IsDict(column) THEN Get(column.m, key, None) ELSE None

\* the four withColumn calls of final_df
final_df(row) ==
    LET n == normalized_df(row)
    IN  n @@ [avg_heart_rate_bpm |-> Extract(n.normalized_heart_rate, "avg_bpm"),
              distance_meters |-> Extract(n.normalized_activity, "distance_meters"),
              steps |-> Extract(n.normalized_activity, "steps"),
              sleep_duration_ms |-> Extract(n.normalized_sleep, "sleep_duration_ms")]

\* whether a udf of the row lets an exception out (the job fails)
RowRaises(row) ==
    \/ normalize_heart_rate(row.heart_rate).escaped
    \/ normalize_activity(row.activity).escaped
    \/ normalize_sleep(row.sleep).escaped

-----------------------------------------------------------------------------
(* the inputs tried *)

s_BPM == <<"B","P","M">>

s_Beats_Per_Minute == <<"B","e","a","t","s"," ","P","e","r"," ","M","i","n","u","t","e">>

s_mmHg == <<"m","m","H","g">>

s_KM == <<"K","M">>

s_Miles == <<"M","i","l","e","s">>

s_yards == <<"y","a","r","d","s">>

s_Hours == <<"H","o","u","r","s">>

s_H == <<"H">>

s_days == <<"d","a","y","s">>

s_120_7 == <<"1","2","0",".","7">>

s_minus_3_7 == <<"-","3",".","7">>

s_abc == <<"a","b","c">>

\* the sequences over S of length at most n
RECURSIVE SeqsUpTo(_, _)
SeqsUpTo(S, n) ==
    IF n = 0 THEN {<<>>}
    ELSE LET shorter == SeqsUpTo(S, n - 1)
         IN  shorter \cup {Append(q, x) : q \in shorter, x \in S}

\* the subsets of S of at most n elements
SubsetsUpTo(S, n) == {T \in SUBSET S : Cardinality(T) <= n}

Points ==
    {EmptyDict, [k \in {"value"} |-> PyInt(60)], [k \in {"value"} |-> PyInt(80)],
     [k \in {"value"} |-> None]}

HeartRatePayloads ==
    {PyDict(MkDict([normalized |-> n, unit |-> u, avg_normalized |-> a,
                    avg_hr |-> h, avg_bpm |-> b, data_points |-> p])) :
        n \in {Absent, PyBool(TRUE)},
        u \in {Absent, None, PyStr(s_normalized), PyStr(s_bpm), PyStr(s_BPM),
               PyStr(s_Beats_Per_Minute), PyStr(s_beats_per_minute), PyStr(s_mmHg)},
        a \in {Absent, None, PyFloat(5, 1), PyFloat(25, 2), PyInt(0), PyInt(1),
               PyFloat(15, 1)},
        h \in {Absent, PyInt(72)},
        b \in {Absent, PyInt(65)},
        p \in {Absent, None} \cup {PyList(l) : l \in SeqsUpTo(Points, MaxPoints)}}

Amounts == {PyInt(n) : n \in 0..MaxAmount}

ActivityPayloads ==
    {PyDict(MkDict([distance |-> x, distance_unit |-> u, calories |-> c,
                    active_calories |-> a, total_calories |-> t,
                    duration_ms |-> ms, steps |-> st])) :
        x \in {Absent, None, PyFloat(25, 1)} \cup Amounts,
        u \in {Absent, None, PyStr(s_km), PyStr(s_KM), PyStr(s_Miles),
               PyStr(s_ft), PyStr(s_meters), PyStr(s_yards)},
        c \in {Absent, PyInt(300)},
        a \in {Absent, PyInt(200)},
        t \in {Absent, PyInt(500)},
        ms \in {Absent, None, PyInt(1800000)},
        st \in {Absent, None, PyInt(12), PyFloat(1207, 1), PyStr(s_120_7),
                PyStr(s_minus_3_7), PyStr(s_abc)}}

StageNames ==
    {"light", "light_sleep", "deep", "deep_sleep", "slow_wave", "rem",
     "rem_sleep", "rapid_eye_movement", "awake", "wake", "wakefulness", "n3"}

\* the duration a source reports under a stage name: one value per name
StageValue(name) ==
    PyInt(CHOOSE i \in 1..12 :
            <<"light", "light_sleep", "deep", "deep_sleep", "slow_wave", "rem",
              "rem_sleep", "rapid_eye_movement", "awake", "wake", "wakefulness",
              "n3">>[i] = name)

\* largest number of stage names in a stages mapping
MaxStages == 2

StagesDicts ==
    {PyDict([k \in T |-> StageValue(k)]) : T \in SubsetsUpTo(StageNames, MaxStages)}

SleepPayloads ==
    {PyDict(MkDict([sleep_duration |-> x, duration_unit |-> u,
                    sleep_duration_ms |-> ms, stages |-> st])) :
        x \in {Absent, None, PyInt(8), PyFloat(75, 1)} \cup Amounts,
        u \in {Absent, None, PyStr(s_seconds), PyStr(s_s), PyStr(s_minutes),
               PyStr(s_min), PyStr(s_hours), PyStr(s_Hours), PyStr(s_H),
               PyStr(s_ms), PyStr(s_days)},
        ms \in {Absent, PyInt(5)},
        st \in {Absent, None} \cup StagesDicts}

\* JSON texts: every token sequence up to MaxTokens over the punctuation,
\* one member name and one literal
JsonTexts(name, literal) ==
    {JsonText(q) :
        q \in SeqsUpTo({LBrace, RBrace, Colon, Comma, Name(name), Lit(literal)},
                       MaxTokens)}

HeartRateArgs == {None} \cup HeartRatePayloads \cup JsonTexts("avg_hr", PyInt(72))

ActivityArgs == {None} \cup ActivityPayloads \cup JsonTexts("steps", PyStr(s_120_7))

SleepArgs == {None} \cup SleepPayloads \cup JsonTexts("sleep_duration", PyInt(8))

Offsets == {<<>>, <<"Z">>, <<"+","0","0",":","0","0">>, <<"-","0","5",":","0","0">>,
            <<"+","0","5",":","3","0">>}

TimestampArgs ==
    {None, PyStr(<<>>), PyStr(s_abc)} \cup
    {PyStr(Pad4(2024) \o <<"-">> \o Pad2(mo) \o <<"-">> \o Pad2(d) \o <<"T">>
           \o Pad2(h) \o <<":">> \o Pad2(mi) \o <<":","0","0">> \o z) :
        mo \in {3, 7, 11}, d \in {1, 3, 10}, h \in {0, 1, 2, 3, 10, 22},
        mi \in {0, 30}, z \in Offsets}

Rows ==
    {[data_type |-> dt, heart_rate |-> hr, activity |-> act, sleep |-> sl,
      start_date |-> sd, end_date |-> None, date |-> date] :
        dt \in {"heart_rate", "activity", "sleep", "gps"},
        hr \in {None, PyDict([k \in {"avg_hr"} |-> PyInt(72)])},
        act \in {None, PyDict([k \in {"distance", "distance_unit"} |->
                                 IF k = "distance" THEN PyInt(2) ELSE PyStr(s_km)])},
        sl \in {None, PyDict([k \in {"sleep_duration", "duration_unit"} |->
                                IF k = "sleep_duration" THEN PyInt(8)
                                ELSE PyStr(s_hours)])},
        sd \in {None, PyStr(s_abc)},
        date \in {None,
                  PyStr(<<"2","0","2","4","-","0","3","-","0","1","T",
                          "1","0",":","0","0",":","0","0">>)}}

-----------------------------------------------------------------------------
(* the state machine: a caller makes one call, may feed a normalizer its   *)
(* own result, or a timestamp converter the rendering of its result         *)

Normalizers == {"normalize_heart_rate", "normalize_activity", "normalize_sleep"}

Init ==
    /\ pc = "idle"
    /\ fn = "none"
    /\ arg = None
    /\ obj = None
    /\ ret = None
    /\ raised = FALSE
    /\ prev = None

\* the caller holds x, calls the function and gets outcome o
Called(name, x, o) ==
    /\ pc' = "returned"
    /\ fn' = name
    /\ arg' = x
    /\ obj' = o.obj
    /\ ret' = o.ret
    /\ raised' = o.escaped
    /\ prev' = None

CallNormalizeHeartRate ==
    /\ pc = "idle"
    /\ \E x \in HeartRateArgs : Called("normalize_heart_rate", x, normalize_heart_rate(x))

CallNormalizeActivity ==
    /\ pc = "idle"
    /\ \E x \in ActivityArgs : Called("normalize_activity", x, normalize_activity(x))

CallNormalizeSleep ==
    /\ pc = "idle"
    /\ \E x \in SleepArgs : Called("normalize_sleep", x, normalize_sleep(x))

\* the caller passes the returned payload to the same normalizer again
Renormalize ==
    /\ pc = "returned"
    /\ fn \in Normalizers
    /\ ~raised
    /\ LET o == Normalize(fn, ret)
       IN  /\ pc' = "renormalized"
           /\ arg' = ret
           /\ obj' = o.obj
           /\ ret' = o.ret
           /\ raised' = o.escaped
           /\ prev' = ret
           /\ UNCHANGED fn

CallConvertToUtc ==
    /\ pc = "idle"
    /\ \E x \in TimestampArgs :
          Called("convert_to_utc", x, Outcome(convert_to_utc(x), x, FALSE))

\* the caller renders the returned datetime and converts it again
ReconvertToUtc ==
    /\ pc = "returned"
    /\ fn = "convert_to_utc"
    /\ ret # None
    /\ LET x == PyStr(IsoFormat(ret))
       IN  /\ pc' = "renormalized"
           /\ arg' = x
           /\ obj' = x
           /\ ret' = convert_to_utc(x)
           /\ prev' = ret
           /\ UNCHANGED <<fn, raised>>

\* the job applies the pipeline to a row of wearable_df
NormalizeRow ==
    /\ pc = "idle"
    /\ \E row \in Rows :
          Called("final_df", row, Outcome(final_df(row), row, RowRaises(row)))

\* the caller drops the results
Discard ==
    /\ pc # "idle"
    /\ pc' = "idle"
    /\ fn' = "none"
    /\ arg' = None
    /\ obj' = None
    /\ ret' = None
    /\ raised' = FALSE
    /\ prev' = None

Next ==
    \/ CallNormalizeHeartRate
    \/ CallNormalizeActivity
    \/ CallNormalizeSleep
    \/ Renormalize
    \/ CallConvertToUtc
    \/ ReconvertToUtc
    \/ NormalizeRow
    \/ Discard

Spec == Init /\ [][Next]_vars

-----------------------------------------------------------------------------
(* Properties *)

\* arg and ret are the argument and the result of a call of a normalizer
NormalizerCall(name) == pc # "idle" /\ fn = name

\* the mapping a normalizer works on: the dict passed, or the dict its JSON
\* text decodes to
Source(x) ==
    IF IsDict(x) THEN [ok |-> TRUE, m |-> x.m]
    ELSE IF IsJsonText(x) /\ json_loads(x.json).ok /\ IsDict(json_loads(x.json).val)
         THEN [ok |-> TRUE, m |-> json_loads(x.json).val.m]
         ELSE [ok |-> FALSE, m |-> EmptyDict]

PayloadColumns == {"heart_rate", "activity", "sleep"}

CanonicalColumn(c) ==
    CASE c = "heart_rate" -> "normalized_heart_rate"
      [] c = "activity" -> "normalized_activity"
      [] c = "sleep" -> "normalized_sleep"

CanonicalFields == {"avg_heart_rate_bpm", "distance_meters", "steps", "sleep_duration_ms"}

Populated(row) == {c \in PayloadColumns : row[CanonicalColumn(c)] # None}

InOpenUnitInterval(a) == IsNum(a) /\ NumLess(PyInt(0), a) /\ NumLess(a, PyInt(1))

\* C2 as stated: a heart-rate payload with unit normalized and avg_normalized
\* strictly between 0 and 1 comes back with avg_bpm = 40 + avg_normalized * 180,
\* within [40, 220], and unit bpm.
C2_NormalizedScaledToBpm ==
    (/\ NormalizerCall("normalize_heart_rate")
     /\ Source(arg).ok
     /\ Get(Source(arg).m, "unit", None) = PyStr(s_normalized)
     /\ InOpenUnitInterval(Get(Source(arg).m, "avg_normalized", None)))
    => /\ IsDict(ret)
       /\ Get(ret.m, "unit", None) = PyStr(s_bpm)
       /\ Has(ret.m, "avg_bpm")
       /\ NumEq(ret.m["avg_bpm"],
                PyAdd(PyInt(40), PyMul(Source(arg).m["avg_normalized"], PyInt(180))))
       /\ ~NumLess(ret.m["avg_bpm"], PyInt(40))
       /\ ~NumLess(PyInt(220), ret.m["avg_bpm"])

UnitField(name) ==
    CASE name = "normalize_heart_rate" -> "unit"
      [] name = "normalize_activity" -> "distance_unit"
      [] name = "normalize_sleep" -> "duration_unit"

CanonicalUnit(name) ==
    CASE name = "normalize_heart_rate" -> PyStr(s_bpm)
      [] name = "normalize_activity" -> PyStr(s_meters)
      [] name = "normalize_sleep" -> PyStr(s_ms)

AbsentOrStr(m, k) == ~Has(m, k) \/ IsPlainStr(m[k])

\* the spellings of bpm among the units tried, in any letter case
BpmSpellingsAnyCase ==
    {s_bpm, s_BPM, s_beats_per_minute, s_Beats_Per_Minute, s_beats_per_minute_spaced}

\* the sources whose unit the normalizer converts
UnitConverted(name, m) ==
    CASE name = "normalize_heart_rate" ->
            \/ ~Has(m, "unit")
            \/ IsPlainStr(m["unit"]) /\ m["unit"].s \in BpmSpellingsAnyCase
            \/ /\ Has(m, "normalized")
               /\ Get(m, "unit", None) = PyStr(s_normalized)
               /\ InOpenUnitInterval(Get(m, "avg_normalized", None))
      [] name = "normalize_activity" ->
            Has(m, "distance") /\ IsNum(m["distance"]) /\ AbsentOrStr(m, "distance_unit")
      [] name = "normalize_sleep" ->
            /\ Has(m, "sleep_duration") /\ IsNum(m["sleep_duration"])
            /\ ~Has(m, "sleep_duration_ms")
            /\ AbsentOrStr(m, "duration_unit")

\* the sources whose unit field the normalizer leaves as it is
UnitKept(name, m) ==
    CASE name = "normalize_heart_rate" -> Has(m, "unit") /\ ~UnitConverted(name, m)
      [] name = "normalize_activity" -> ~Has(m, "distance")
      [] name = "normalize_sleep" -> ~Has(m, "sleep_duration") \/ Has(m, "sleep_duration_ms")

InCanonicalUnits(name, m) == Get(m, UnitField(name), None) = CanonicalUnit(name)

DerivedFields(name) ==
    CASE name = "normalize_heart_rate" -> {"avg_bpm"}
      [] name = "normalize_activity" -> {"distance_meters", "total_calories", "steps"}
      [] name = "normalize_sleep" -> {"sleep_duration_ms", "normalized_stages"}

IsTruncationOf(v, x) ==
    /\ v.t = "int"
    /\ IF NumLess(x, PyInt(0))
       THEN ~NumLess(v, x) /\ NumLess(PyInt(v.n - 1), x)
       ELSE ~NumLess(x, v) /\ NumLess(x, PyInt(v.n + 1))

NoEarlierError(m) ==
    /\ Has(m, "distance") => IsNum(m["distance"]) /\ AbsentOrStr(m, "distance_unit")
    /\ Has(m, "duration_ms") => IsNum(m["duration_ms"])
    /\ Has(m, "active_calories") => IsNum(m["active_calories"])

C6_NeverRaises ==
    (pc # "idle" /\ fn \in Normalizers)
    => /\ ~raised
       /\ arg = None => ret = None
       /\ (IsJsonText(arg) /\ ~json_loads(arg.json).ok) => (ret = arg /\ ret # None)
       /\ IsDict(arg) => IsDict(ret)

\* the JSON text  { "avg_hr" :  fails to decode and comes back as passed
C6_Witness ==
    /\ NormalizerCall("normalize_heart_rate")
    /\ arg = JsonText(<<LBrace, Name("avg_hr"), Colon>>)
    /\ ret = arg
    /\ ~raised

\* the days of the year before month mo
RECURSIVE DaysBefore(_, _)
DaysBefore(y, mo) ==
    IF mo = 1 THEN 0 ELSE DaysBefore(y, mo - 1) + DaysInMonth(y, mo - 1)

\* the wall clock of dt as minutes since the start of its year
MinuteOfYear(dt) ==
    ((DaysBefore(dt.year, dt.month) + dt.day - 1) * 24 + dt.hour) * 60 + dt.minute

\* US Eastern time in 2024: daylight time (UTC-4) from 10 March 03:00 to
\* 3 November 01:00 on the wall clock, standard time (UTC-5) otherwise
Eastern2024(dt) ==
    IF \/ dt.month \in 4..10
       \/ dt.month = 3 /\ (dt.day > 10 \/ (dt.day = 10 /\ dt.hour >= 3))
       \/ dt.month = 11 /\ (dt.day < 3 \/ (dt.day = 3 /\ dt.hour < 1))
    THEN -240 ELSE -300

s_2024_03_01T10 ==
    <<"2","0","2","4","-","0","3","-","0","1","T","1","0",":","0","0",":","0","0">>

C8_ArgumentUnchanged ==
    (pc # "idle" /\ fn \in Normalizers /\ IsDict(arg)) => obj = arg

\* the first alias of a stage, in the declared order, that stages holds
FirstPresent(variations, stages) ==
    variations[CHOOSE i \in 1..Len(variations) :
                  /\ Has(stages, variations[i])
                  /\ \A j \in 1..(i - 1) : ~Has(stages, variations[j])]

\* C9: when stages holds more than one accepted alias of a canonical stage,
\* normalized_stages[stage] is the value of the first alias present in the
\* declared alias order.
C9_FirstAliasWins ==
    (/\ NormalizerCall("normalize_sleep")
     /\ Source(arg).ok /\ Has(Source(arg).m, "stages")
     /\ IsDict(Source(arg).m["stages"])
     /\ IsDict(ret) /\ Has(ret.m, "normalized_stages"))
    => LET stages == Source(arg).m["stages"].m
       IN  \A i \in 1..Len(stage_mapping) :
              (\E j \in 1..Len(stage_mapping[i].variations) :
                  Has(stages, stage_mapping[i].variations[j]))
              => /\ Has(ret.m["normalized_stages"].m, stage_mapping[i].stage)
                 /\ ret.m["normalized_stages"].m[stage_mapping[i].stage]
                      = stages[FirstPresent(stage_mapping[i].variations, stages)]

\* a sleep payload whose duration the normalizer converts
DurationConverted(m) ==
    /\ Has(m, "sleep_duration") /\ IsNum(m["sleep_duration"])
    /\ ~Has(m, "sleep_duration_ms")
    /\ AbsentOrStr(m, "duration_unit")

\* the factor of a duration unit among the units tried, in any letter case
UnitFactor(chars) ==
    IF chars \in {s_seconds, s_s} THEN 1000
    ELSE IF chars \in {s_minutes, s_min} THEN 60000
    ELSE IF chars \in {s_hours, s_Hours, s_h, s_H} THEN 3600000
    ELSE 1

\* C10 as stated: sleep_duration_ms = sleep_duration * f and duration_unit =
\* ms, f being 1000 for seconds/s, 60000 for minutes/min, 3600000 for hours/h
\* in any letter case, and 1 for any other or absent duration_unit.  (Stated
\* for a numeric sleep_duration and a duration_unit that is absent or a
\* string.)
C10_AbsentUnitIsMilliseconds ==
    (/\ NormalizerCall("normalize_sleep")
     /\ Source(arg).ok /\ DurationConverted(Source(arg).m))
    => LET m == Source(arg).m
           f == IF Has(m, "duration_unit") THEN UnitFactor(m["duration_unit"].s) ELSE 1
       IN  /\ IsDict(ret)
           /\ Get(ret.m, "duration_unit", None) = PyStr(s_ms)
           /\ NumEq(Get(ret.m, "sleep_duration_ms", None),
                    PyMul(m["sleep_duration"], PyInt(f)))

\* C10 amended: for a numeric sleep_duration without sleep_duration_ms and a
\* duration_unit that is absent or a string, sleep_duration_ms =
\* sleep_duration * f and duration_unit = ms, f being 1000 for seconds/s and
\* for an absent duration_unit, 60000 for minutes/min, 3600000 for hours/h in
\* any letter case, and 1 for any other duration_unit string.
C10_AbsentUnitIsSeconds ==
    (/\ NormalizerCall("normalize_sleep")
     /\ Source(arg).ok /\ DurationConverted(Source(arg).m))
    => LET m == Source(arg).m
           f == IF Has(m, "duration_unit") THEN UnitFactor(m["duration_unit"].s)
                ELSE 1000
       IN  /\ IsDict(ret)
           /\ Get(ret.m, "duration_unit", None) = PyStr(s_ms)
           /\ NumEq(Get(ret.m, "sleep_duration_ms", None),
                    PyMul(m["sleep_duration"], PyInt(f)))

\* a sleep_duration of 8 without a duration_unit gives 8000 ms
C10_Witness ==
    /\ NormalizerCall("normalize_sleep")
    /\ IsDict(arg)
    /\ Get(arg.m, "sleep_duration", None) = PyInt(8)
    /\ ~Has(arg.m, "duration_unit") /\ ~Has(arg.m, "sleep_duration_ms")
    /\ IsDict(ret) /\ ret.m["sleep_duration_ms"] = PyInt(8000)
    /\ ret.m["duration_unit"] = PyStr(s_ms)

=============================================================================
